---- MODULE Spec2Model ----
(***************************************************************************)
(* bmt_lite.Toolkit: the index built from a parsed schema (slots and       *)
(* classes tables) and the memoized queries over it.                       *)
(*                                                                         *)
(* Python values are modelled as follows.  A dict is a sequence of         *)
(* <<key, value>> pairs with distinct keys, in insertion order.  A list is *)
(* a sequence, a set is a set.  Names and identifiers are strings; None    *)
(* where a name is expected is the token None, None where a Dict is        *)
(* expected is the record NoElement.  A non-string argument (the number 3) *)
(* is the token Three: like any value that is no key of a table, it only   *)
(* ever takes part in key lookups and membership tests.                    *)
(***************************************************************************)
EXTENDS Integers, Sequences, FiniteSets, Bags, TLC

None == "None"
NoElement == [is_none |-> TRUE]
Three == "3"

(***************************************************************************)
(* Bounds of the model.                                                    *)
(***************************************************************************)
\* functools.lru_cache() keeps 128 entries per decorated function; the model
\* scales the capacity down so that evictions happen within a few calls.
maxsize == 2
\* CPython gives up at 1000 nested frames (RecursionError); the model scales
\* the limit down.  It stays above the deepest acyclic call chain of every
\* schema of the model.
RecursionLimit == 8
\* Number of queries a caller issues on one Toolkit in the cache runs.
MaxCalls == 2

\* Names the slots table and the classes table of a bounded schema may
\* hold, in document order; "gene" may occur in both.
SlotOrder == <<"gene", "causes">>
ClassOrder == <<"named thing", "gene">>
Names == {"named thing", "gene", "causes"}
\* External identifiers an element of the bounded schemas may list.
Identifiers == {"biolink:probe1"}
\* Arguments that name nothing: None, a number, an unknown string.
NonNames == {None, Three, "invalid"}

(***************************************************************************)
(* dict and list helpers.                                                  *)
(***************************************************************************)
Range(s) == {s[i] : i \in 1..Len(s)}

DictKeys(d) == {d[i][1] : i \in 1..Len(d)}

DictHas(d, k) == \E i \in 1..Len(d) : d[i][1] = k

\* d[k], for a key of d
DictAt(d, k) == d[CHOOSE i \in 1..Len(d) : d[i][1] = k][2]

\* d.get(k, default)
DictGet(d, k, default) == IF DictHas(d, k) THEN DictAt(d, k) ELSE default

\* d[k] = v: a present key keeps its position, a new key goes last
DictSet(d, k, v) ==
    IF DictHas(d, k)
    THEN LET i == CHOOSE j \in 1..Len(d) : d[j][1] = k
         IN SubSeq(d, 1, i - 1) \o <<<<k, v>>>> \o SubSeq(d, i + 1, Len(d))
    ELSE Append(d, <<k, v>>)

\* {**d1, **d2}
RECURSIVE DictMerge(_, _)
DictMerge(d1, d2) ==
    IF d2 = <<>> THEN d1
    ELSE DictMerge(DictSet(d1, Head(d2)[1], Head(d2)[2]), Tail(d2))

\* d without key k
DictDrop(d, k) ==
    LET Keep(e) == e[1] # k IN SelectSeq(d, Keep)

(***************************************************************************)
(* Toolkit.__init__: the tables derived from the schema.                   *)
(***************************************************************************)
\* {key: [value.get("is_a", None)] for key, value in table.items()}
RECURSIVE ParentsOf(_)
ParentsOf(table) ==
    IF table = <<>> THEN <<>>
    ELSE <<<<Head(table)[1], <<Head(table)[2].is_a>>>>>> \o ParentsOf(Tail(table))

\* children = defaultdict(list)
\* for child, parents in table_parents.items():
\*     for parent in parents: children[parent].append(child)
RECURSIVE ChildrenOf(_, _)
ChildrenOf(table_parents, children) ==
    IF table_parents = <<>> THEN children
    ELSE LET child  == Head(table_parents)[1]
             parent == Head(table_parents)[2][1]
         IN ChildrenOf(Tail(table_parents),
                       DictSet(children, parent,
                               Append(DictGet(children, parent, <<>>), child)))

slot_parents(s) == ParentsOf(s)
slot_children(s) == ChildrenOf(slot_parents(s), <<>>)
class_parents(c) == ParentsOf(c)
class_children(c) == ChildrenOf(class_parents(c), <<>>)

BuildElements(s, c) == DictMerge(s, c)
BuildChildren(s, c) == DictMerge(slot_children(s), class_children(c))
BuildParents(s, c) == DictMerge(slot_parents(s), class_parents(c))

VARIABLES
    slots,      \* self.slots
    classes,    \* self.classes
    elements,   \* self.elements
    _children,  \* self._children
    _parents,   \* self._parents
    cache,      \* per memoized method: its lru_cache, least recently used first
    runs,       \* bag of <<method, argument>>: executions of the method's body
    lost,       \* bag of <<method, argument>>: evictions and uncached raises
    calls,      \* queries issued so far
    budget,     \* queries the caller issues in this run
    last        \* the last query: method, argument, outcome, and whether
                \* the cache answered it

index == <<slots, classes, elements, _children, _parents>>
vars == <<slots, classes, elements, _children, _parents, cache, runs, lost,
          calls, budget, last>>

Ops == {"ancestors", "descendents", "children", "parent", "get_element",
        "is_edgelabel", "is_category", "get_all_by_mapping", "get_by_mapping"}
(***************************************************************************)
(* functools.lru_cache: one cache per decorated method, keyed by the       *)
(* arguments (self, name).  self is the one Toolkit of the run.            *)
(***************************************************************************)
\* a key that ignores the argument: every call of a method shares one entry
CacheKey_Constant(name) == None

\* the key a call is cached under
CacheKey(name) == name

\* a hit moves the entry to the most recently used end
Touch(c, key) == Append(DictDrop(c, key), <<key, DictAt(c, key)>>)

\* the keys the store of a computed result evicts: the least recently used
\* entry of a full cache, unless a nested call cached the key meanwhile
Evicted(c, key) ==
    IF ~DictHas(c, key) /\ Len(c) >= maxsize /\ Len(c) > 0
    THEN {Head(c)[1]} ELSE {}

\* a store that keeps nothing
Store_Nothing(c, key, val) == c

\* the cache after the store of a computed result
Store(c, key, val) ==
    IF DictHas(c, key) THEN c
    ELSE IF Len(c) >= maxsize
         THEN IF Len(c) = 0 THEN c ELSE Append(Tail(c), <<key, val>>)
         ELSE Append(c, <<key, val>>)

\* the outcome of a call: the memo state after it, the value returned, or
\* raised (RecursionError) with no value
Return(m, val) == [m |-> m, val |-> val, raised |-> FALSE]
Raise(m) == [m |-> m, val |-> None, raised |-> TRUE]
Ran(m, op, name) == [m EXCEPT !.runs = @ (+) SetToBag({<<op, name>>})]

(***************************************************************************)
(* The pieces of the method bodies.                                        *)
(***************************************************************************)
\* the chain farthest first: self.ancestors(parent) + [parent]
Chain_FarthestFirst(parent, rest) == rest \o <<parent>>

\* ancestors, line 99: [parent] + self.ancestors(parent)
Chain(parent, rest) == <<parent>> \o rest

\* a seed without the first matched element itself
Seed_AncestorsOnly(mapping, ancs) == ancs

\* get_by_mapping, line 277: [mappings[0]] + self.ancestors(mappings[0])
Seed(mapping, ancs) == <<mapping>> \o ancs

\* get_by_mapping, line 281: [mapping] + self.ancestors(mapping)
SelfAndAncestors(mapping, ancs) == <<mapping>> \o ancs

\* no filtering: shared_ancestors as it was
SharedAncestors_Unfiltered(shared_ancestors, ancs) == shared_ancestors

\* get_by_mapping, lines 282-286: the entries of shared_ancestors that are
\* in ancestors, in the order of shared_ancestors
SharedAncestors(shared_ancestors, ancs) ==
    LET In(a) == a \in Range(ancs) IN SelectSeq(shared_ancestors, In)

\* the last, shallowest entry: shared_ancestors[-1]
First_Shallowest(shared_ancestors) == shared_ancestors[Len(shared_ancestors)]

\* get_by_mapping, line 289: shared_ancestors[0]
First(shared_ancestors) == shared_ancestors[1]

\* list(a_set): the members in the iteration order ord, a sequence that
\* holds every member once
ListOf(set, ord) ==
    LET In(a) == a \in set IN SelectSeq(ord, In)

\* get_all_by_mapping, lines 252-256
Matching(uriorcurie) ==
    {elements[i][1] : i \in {j \in 1..Len(elements) :
                                uriorcurie \in elements[j][2].mappings}}

RECURSIVE Call(_, _, _, _, _)
RECURSIVE Body(_, _, _, _, _)
RECURSIVE descendentsLoop(_, _, _, _, _, _)
RECURSIVE get_by_mappingLoop(_, _, _, _, _, _)

\* a lookup that leaves the key behind, as indexing a defaultdict(list) does
children_get_inserting(table, name) ==
    [table |-> IF DictHas(table, name) THEN table ELSE DictSet(table, name, <<>>),
     val |-> DictGet(table, name, <<>>)]

\* children, line 138: self._children.get(name, []) on the plain dict of
\* lines 59-62; the table after the lookup, and the list it gives
children_get(table, name) ==
    [table |-> table, val |-> DictGet(table, name, <<>>)]

\* the lru_cache wrapper around a method: m is the state the call works on
\* (the caches, their bookkeeping and the children table), depth the
\* number of method frames on the stack, ord the iteration order of sets
Call(op, name, m, depth, ord) ==
    LET key == CacheKey(name)
        c   == m.cache[op]
    IN IF DictHas(c, key)
       THEN Return([m EXCEPT !.cache[op] = Touch(c, key)], DictAt(c, key))
       ELSE LET r == Body(op, name, m, depth + 1, ord) IN
            IF r.raised
            THEN Raise([r.m EXCEPT !.lost = @ (+) SetToBag({<<op, key>>})])
            ELSE LET c2 == r.m.cache[op] IN
                 Return([r.m EXCEPT
                           !.cache[op] = Store(c2, key, r.val),
                           !.lost = @ (+) SetToBag({<<op, k>> : k \in Evicted(c2, key)})],
                        r.val)

\* descendents, lines 118-120: the loop over the children from position i
descendentsLoop(kids, i, c, m, depth, ord) ==
    IF i > Len(kids) THEN Return(m, c)
    ELSE LET r == Call("descendents", kids[i], m, depth, ord) IN
         IF r.raised THEN r
         ELSE descendentsLoop(kids, i + 1, Append(c, kids[i]) \o r.val,
                              r.m, depth, ord)

\* get_by_mapping, lines 280-289: the loop over mappings[1:] from position i
get_by_mappingLoop(mappings, i, shared_ancestors, m, depth, ord) ==
    IF i > Len(mappings) THEN Return(m, First(shared_ancestors))
    ELSE LET r == Call("ancestors", mappings[i], m, depth, ord) IN
         IF r.raised THEN r
         ELSE LET shared == SharedAncestors(shared_ancestors,
                                            SelfAndAncestors(mappings[i], r.val))
              IN IF shared = <<>> THEN Return(r.m, None)
                 ELSE get_by_mappingLoop(mappings, i + 1, shared, r.m, depth, ord)

\* the body of method op run in frame number depth
Body(op, name, m0, depth, ord) ==
    IF depth > RecursionLimit THEN Raise(m0)
    ELSE LET m == Ran(m0, op, name) IN
    CASE op = "parent" ->
           IF DictHas(_parents, name)
           THEN Return(m, DictAt(_parents, name)[1])
           ELSE Return(m, None)
      [] op = "children" ->
           LET got == children_get(m.children, name)
           IN Return([m EXCEPT !.children = got.table], got.val)
      [] op = "get_element" -> Return(m, DictGet(elements, name, NoElement))
      [] op = "ancestors" ->
           LET p == Call("parent", name, m, depth, ord) IN
           IF p.raised THEN p
           ELSE IF p.val = None THEN Return(p.m, <<>>)
           ELSE LET a == Call("ancestors", p.val, p.m, depth, ord) IN
                IF a.raised THEN a ELSE Return(a.m, Chain(p.val, a.val))
      [] op = "descendents" ->
           LET k == Call("children", name, m, depth, ord) IN
           IF k.raised THEN k
           ELSE descendentsLoop(k.val, 1, <<>>, k.m, depth, ord)
      [] op = "is_edgelabel" ->
           LET e == Call("get_element", name, m, depth, ord) IN
           IF e.raised THEN e
           ELSE IF e.val = NoElement THEN Return(e.m, FALSE)
           ELSE Return(e.m, "translator_minimal" \in e.val.in_subset)
      [] op = "is_category" ->
           IF name = "named thing" THEN Return(m, TRUE)
           ELSE LET a == Call("ancestors", name, m, depth, ord) IN
                IF a.raised THEN a
                ELSE Return(a.m, "named thing" \in Range(a.val))
      [] op = "get_all_by_mapping" -> Return(m, Matching(name))
      [] op = "get_by_mapping" ->
           LET s == Call("get_all_by_mapping", name, m, depth, ord) IN
           IF s.raised THEN s
           ELSE LET mappings == ListOf(s.val, ord) IN
                IF mappings = <<>> THEN Return(s.m, None)
                ELSE LET a == Call("ancestors", mappings[1], s.m, depth, ord) IN
                     IF a.raised THEN a
                     ELSE LET shared == Seed(mappings[1], a.val) IN
                          IF shared = <<>> THEN Return(a.m, None)
                          ELSE get_by_mappingLoop(mappings, 2, shared,
                                                  a.m, depth, ord)

(***************************************************************************)
(* The methods without the decorator (their __wrapped__ functions calling  *)
(* each other directly): what a query computes when nothing is cached.     *)
(***************************************************************************)
Value(val) == [val |-> val, raised |-> FALSE]
Error == [val |-> None, raised |-> TRUE]

RECURSIVE Plain(_, _, _, _)
RECURSIVE plainDescendentsLoop(_, _, _, _, _)
RECURSIVE plainMappingLoop(_, _, _, _, _)

plainDescendentsLoop(kids, i, c, depth, ord) ==
    IF i > Len(kids) THEN Value(c)
    ELSE LET r == Plain("descendents", kids[i], depth + 1, ord) IN
         IF r.raised THEN r
         ELSE plainDescendentsLoop(kids, i + 1, Append(c, kids[i]) \o r.val,
                                   depth, ord)

plainMappingLoop(mappings, i, shared_ancestors, depth, ord) ==
    IF i > Len(mappings) THEN Value(First(shared_ancestors))
    ELSE LET r == Plain("ancestors", mappings[i], depth + 1, ord) IN
         IF r.raised THEN r
         ELSE LET shared == SharedAncestors(shared_ancestors,
                                            SelfAndAncestors(mappings[i], r.val))
              IN IF shared = <<>> THEN Value(None)
                 ELSE plainMappingLoop(mappings, i + 1, shared, depth, ord)

Plain(op, name, depth, ord) ==
    IF depth > RecursionLimit THEN Error
    ELSE
    CASE op = "parent" ->
           IF DictHas(_parents, name)
           THEN Value(DictAt(_parents, name)[1])
           ELSE Value(None)
      [] op = "children" -> Value(children_get(_children, name).val)
      [] op = "get_element" -> Value(DictGet(elements, name, NoElement))
      [] op = "ancestors" ->
           LET p == Plain("parent", name, depth + 1, ord) IN
           IF p.raised THEN p
           ELSE IF p.val = None THEN Value(<<>>)
           ELSE LET a == Plain("ancestors", p.val, depth + 1, ord) IN
                IF a.raised THEN a ELSE Value(Chain(p.val, a.val))
      [] op = "descendents" ->
           LET k == Plain("children", name, depth + 1, ord) IN
           IF k.raised THEN k
           ELSE plainDescendentsLoop(k.val, 1, <<>>, depth, ord)
      [] op = "is_edgelabel" ->
           LET e == Plain("get_element", name, depth + 1, ord) IN
           IF e.raised THEN e
           ELSE IF e.val = NoElement THEN Value(FALSE)
           ELSE Value("translator_minimal" \in e.val.in_subset)
      [] op = "is_category" ->
           IF name = "named thing" THEN Value(TRUE)
           ELSE LET a == Plain("ancestors", name, depth + 1, ord) IN
                IF a.raised THEN a
                ELSE Value("named thing" \in Range(a.val))
      [] op = "get_all_by_mapping" -> Value(Matching(name))
      [] op = "get_by_mapping" ->
           LET s == Plain("get_all_by_mapping", name, depth + 1, ord) IN
           IF s.raised THEN s
           ELSE LET mappings == ListOf(s.val, ord) IN
                IF mappings = <<>> THEN Value(None)
                ELSE LET a == Plain("ancestors", mappings[1], depth + 1, ord) IN
                     IF a.raised THEN a
                     ELSE LET shared == Seed(mappings[1], a.val) IN
                          IF shared = <<>> THEN Value(None)
                          ELSE plainMappingLoop(mappings, 2, shared, depth, ord)

(***************************************************************************)
(* The schemas a run starts from.                                          *)
(***************************************************************************)
Element(is_a, mappings, in_subset) ==
    [is_a |-> is_a, mappings |-> mappings, in_subset |-> in_subset]

\* the properties of an element of a bounded schema
Props == {Element(a, ms, {}) : a \in Names \cup {None}, ms \in SUBSET Identifiers}

\* every table that holds some of the names of order, in that order
RECURSIVE Tables(_)
Tables(order) ==
    IF order = <<>> THEN {<<>>}
    ELSE LET rest == Tables(Tail(order))
         IN rest \cup {<<<<Head(order), p>>>> \o t : p \in Props, t \in rest}

\* causes -> gene -> named thing, across the two tables
ChainSlots ==
    << <<"causes", Element("gene", Identifiers, {"translator_minimal"})>> >>
ChainClasses ==
    << <<"named thing", Element(None, Identifiers, {})>>,
       <<"gene", Element("named thing", {}, {})>> >>

\* a schema whose is_a relation has a cycle: gene is its own parent
LoopSlots == << <<"gene", Element("gene", Identifiers, {})>> >>
LoopClasses == <<>>

\* The toy model of the tests: the hierarchy and the mappings that
\* test_mapping describes, and the elements the other tests name.
ToySlots ==
    << <<"related to", Element(None, {}, {})>>,
       <<"affects", Element("related to",
            {"biolink:probe1", "biolink:probe2", "biolink:probe4"}, {})>>,
       <<"regulates", Element("affects", {}, {})>>,
       <<"regulates, process to process", Element("regulates",
            {"biolink:probe3", "biolink:probe4"}, {})>>,
       <<"negatively regulates, process to process",
         Element("regulates, process to process",
            {"biolink:probe2", "biolink:probe3", "biolink:probe4"}, {})>>,
       <<"regulates, entity to entity", Element("regulates",
            {"biolink:probe3", "biolink:probe4"}, {})>>,
       <<"positively regulates, entity to entity",
         Element("regulates, entity to entity",
            {"biolink:probe3", "biolink:probe4"}, {})>>,
       <<"contributes to", Element("related to", {}, {})>>,
       <<"causes", Element("contributes to", {}, {"translator_minimal"})>> >>
ToyClasses ==
    << <<"named thing", Element(None, {}, {})>>,
       <<"gene", Element("named thing", {}, {})>> >>

NoCall == [op |-> "__init__", arg |-> None, val |-> None, raised |-> FALSE,
           hit |-> FALSE]

\* the state after Toolkit.__init__ on the schema {slots: s, classes: c}
Constructed(s, c, b) ==
    /\ slots = s
    /\ classes = c
    /\ elements = BuildElements(s, c)
    /\ _children = BuildChildren(s, c)
    /\ _parents = BuildParents(s, c)
    /\ cache = [op \in Ops |-> <<>>]
    /\ runs = EmptyBag
    /\ lost = EmptyBag
    /\ calls = 0
    /\ budget = b
    /\ last = NoCall

\* any bounded schema; the caller issues one query
Init == \E s \in Tables(SlotOrder), c \in Tables(ClassOrder) : Constructed(s, c, 1)

\* the chain or the loop schema; the caller issues MaxCalls queries
InitCache ==
    \/ Constructed(ChainSlots, ChainClasses, MaxCalls)
    \/ Constructed(LoopSlots, LoopClasses, MaxCalls)

\* the toy model; the caller issues one query
InitToy == Constructed(ToySlots, ToyClasses, 1)

(***************************************************************************)
(* The queries.                                                            *)
(***************************************************************************)
\* what a caller passes: the names and identifiers of the schema, and
\* values that name nothing
Args ==
    DictKeys(elements)
      \cup {elements[i][2].is_a : i \in 1..Len(elements)}
      \cup UNION {elements[i][2].mappings : i \in 1..Len(elements)}
      \cup NonNames

\* the orders in which a set may be iterated
RECURSIVE Perms(_)
Perms(set) ==
    IF set = {} THEN {<<>>}
    ELSE UNION {{<<x>> \o p : p \in Perms(set \ {x})} : x \in set}

memo == [cache |-> cache, runs |-> runs, lost |-> lost, children |-> _children]

\* the iteration orders a call of op with name depends on
Orders(op, name) ==
    IF op = "get_by_mapping" THEN Perms(Matching(name)) ELSE {<<>>}

\* one query: the call through the method's cache, and what it leaves
Query(op, name, ord) ==
    LET r == Call(op, name, memo, 0, ord) IN
    /\ cache' = r.m.cache
    /\ runs' = r.m.runs
    /\ lost' = r.m.lost
    /\ last' = [op |-> op, arg |-> name, val |-> r.val, raised |-> r.raised,
                hit |-> DictHas(cache[op], CacheKey(name))]
    /\ _children' = r.m.children
    /\ calls' = calls + 1
    /\ UNCHANGED <<slots, classes, elements, _parents, budget>>

ancestors ==
    /\ calls < budget
    /\ \E name \in Args : Query("ancestors", name, <<>>)

descendents ==
    /\ calls < budget
    /\ \E name \in Args : Query("descendents", name, <<>>)

children ==
    /\ calls < budget
    /\ \E name \in Args : Query("children", name, <<>>)

parent ==
    /\ calls < budget
    /\ \E name \in Args : Query("parent", name, <<>>)

get_element ==
    /\ calls < budget
    /\ \E name \in Args : Query("get_element", name, <<>>)

is_edgelabel ==
    /\ calls < budget
    /\ \E name \in Args : Query("is_edgelabel", name, <<>>)

is_category ==
    /\ calls < budget
    /\ \E name \in Args : Query("is_category", name, <<>>)

get_all_by_mapping ==
    /\ calls < budget
    /\ \E uriorcurie \in Args : Query("get_all_by_mapping", uriorcurie, <<>>)

\* list(self.get_all_by_mapping(uriorcurie)) may come in any order
get_by_mapping ==
    /\ calls < budget
    /\ \E uriorcurie \in Args : \E ord \in Perms(Matching(uriorcurie)) :
         Query("get_by_mapping", uriorcurie, ord)

Next ==
    \/ ancestors
    \/ descendents
    \/ children
    \/ parent
    \/ get_element
    \/ is_edgelabel
    \/ is_category
    \/ get_all_by_mapping
    \/ get_by_mapping

Spec == Init /\ [][Next]_vars
SpecCache == InitCache /\ [][Next]_vars
SpecToy == InitToy /\ [][Next]_vars

(***************************************************************************)
(* Vocabulary of the properties.                                           *)
(***************************************************************************)
\* parent(n), children(n), ... as the undecorated methods compute them
ParentOf(n) == Plain("parent", n, 1, <<>>).val
Runs(op, name) == IF <<op, name>> \in DOMAIN runs THEN runs[<<op, name>>] ELSE 0
Lost(op, name) == IF <<op, name>> \in DOMAIN lost THEN lost[<<op, name>>] ELSE 0

\* every name the parent table mentions
AllNames ==
    (DictKeys(_parents) \cup {_parents[i][2][1] : i \in 1..Len(_parents)}) \ {None}

\* the proper ancestors of n along parent(), following at most fuel links
RECURSIVE Up(_, _)
Up(n, fuel) ==
    LET p == ParentOf(n)
    IN IF fuel = 0 \/ p = None THEN {} ELSE {p} \cup Up(p, fuel - 1)

Ancestry(n) == Up(n, Cardinality(AllNames) + 1)
AncestryOrSelf(n) == {n} \cup Ancestry(n)

\* the parent relation is a forest: no name is its own ancestor
Acyclic == \A n \in AllNames : n \notin Ancestry(n)

\* the names that are an ancestor-or-self of every member of M
CommonAncestors(M) == {r \in AllNames : \A m \in M : r \in AncestryOrSelf(m)}

Called(op) == last.op = op
Returned(op) == last.op = op /\ ~last.raised

C2_AbsentResult ==
    (last.op \in Ops /\ last.arg \in NonNames) =>
        /\ ~last.raised
        /\ last.op \in {"parent", "get_by_mapping"} => last.val = None
        /\ last.op = "get_element" => last.val = NoElement
        /\ last.op \in {"children", "ancestors", "descendents"} => last.val = <<>>
        /\ last.op = "get_all_by_mapping" => last.val = {}
        /\ last.op \in {"is_edgelabel", "is_category"} => last.val = FALSE

(***************************************************************************)
(* C3: children and parent are mutual inverses on every index the          *)
(* constructor builds, also when a name is in both tables: every c in      *)
(* children(p) has parent(c) = p.  Stated for the schemas whose parent     *)
(* relation is a forest.                                                   *)
(***************************************************************************)
C3_ChildrenInverseOfParent ==
    (Returned("children") /\ Acyclic) =>
        \A i \in 1..Len(last.val) : ParentOf(last.val[i]) = last.arg

(***************************************************************************)
(* C4: every name whose parent(name) is not None is a member of            *)
(* descendents(parent(name)), also when the parent has children in both    *)
(* tables.  Stated for the schemas whose parent relation is a forest and   *)
(* whose tables share no name.                                             *)
(***************************************************************************)
DisjointTables == DictKeys(slots) \cap DictKeys(classes) = {}

C4_NameAmongDescendentsOfParent ==
    (Returned("parent") /\ last.val # None /\ Acyclic /\ DisjointTables) =>
        LET d == Plain("descendents", last.val, 1, <<>>)
        IN ~d.raised /\ last.arg \in Range(d.val)

(***************************************************************************)
(* C7: on an acyclic parent relation ancestors(name) returns, and returns  *)
(* the parent chain nearest first: empty iff parent(name) is None, its     *)
(* first entry parent(name), every later entry the parent of the entry     *)
(* before it, and the parent of its last entry None.                       *)
(***************************************************************************)
C7_AncestorsIsParentChain ==
    (Called("ancestors") /\ Acyclic) =>
        /\ ~last.raised
        /\ LET a == last.val
           IN /\ (a = <<>>) <=> (ParentOf(last.arg) = None)
              /\ a # <<>> =>
                   /\ a[1] = ParentOf(last.arg)
                   /\ \A i \in 2..Len(a) : a[i] = ParentOf(a[i - 1])
                   /\ ParentOf(a[Len(a)]) = None

\* ancestors returned a chain of two or more names on an acyclic relation
C7_Witness ==
    /\ Returned("ancestors")
    /\ Acyclic
    /\ Len(last.val) >= 2

(***************************************************************************)
(* C9: whenever the parent relation seen through parent() is acyclic,      *)
(* descendents(name) terminates (returns) for every name, also on an       *)
(* index built from a schema with a name in both tables.                   *)
(***************************************************************************)
C9_DescendentsTerminates ==
    (Called("descendents") /\ Acyclic) => ~last.raised

(***************************************************************************)
(* C10: on a forest the value of get_by_mapping does not depend on the     *)
(* order in which the matched set is enumerated: whatever order the call   *)
(* took, every order of list(get_all_by_mapping(identifier)) gives the     *)
(* value it returned.                                                      *)
(***************************************************************************)
C10_OrderIndependent ==
    (Called("get_by_mapping") /\ Acyclic) =>
        \A ord \in Perms(Matching(last.arg)) :
            LET r == Plain("get_by_mapping", last.arg, 1, ord)
            IN /\ r.raised = last.raised
               /\ ~r.raised => r.val = last.val

\* get_by_mapping answered for a matched set of a forest that has several
\* orders, one of whose members is an ancestor of another
C10_Witness ==
    /\ Returned("get_by_mapping")
    /\ Acyclic
    /\ LET M == Matching(last.arg)
       IN /\ Cardinality(M) >= 2
          /\ \E x, y \in M : x \in Ancestry(y)
          /\ last.val # None

(***************************************************************************)
(* C6: in the toy model, where biolink:probe3 is mapped by exactly the     *)
(* four elements below regulates, get_by_mapping("biolink:probe3")         *)
(* returns None.                                                           *)
(***************************************************************************)
Probe3Matches ==
    {"negatively regulates, process to process", "regulates, process to process",
     "positively regulates, entity to entity", "regulates, entity to entity"}

Probe3Resolved ==
    /\ Called("get_by_mapping")
    /\ last.arg = "biolink:probe3"
    /\ Plain("get_all_by_mapping", last.arg, 1, <<>>).val = Probe3Matches

C8_IndexAsConstructed ==
    /\ elements = BuildElements(slots, classes)
    /\ _children = BuildChildren(slots, classes)
    /\ _parents = BuildParents(slots, classes)

C8_AsUncached ==
    last.op \in Ops =>
        \E ord \in Orders(last.op, last.arg) :
            LET r == Plain(last.op, last.arg, 1, ord)
            IN /\ r.raised = last.raised
               /\ ~r.raised => r.val = last.val

C8_Transparent ==
    /\ [](C8_IndexAsConstructed /\ C8_AsUncached)
    /\ [][UNCHANGED index]_vars

\* a call recomputed, after an eviction, an argument it had computed before
C8_Witness ==
    /\ last.op \in Ops
    /\ Acyclic
    /\ calls >= 2
    /\ ~last.raised
    /\ ~last.hit
    /\ Runs(last.op, last.arg) = 2
    /\ Lost(last.op, last.arg) = 1
====
